---- MODULE Spec2Model ----
(***************************************************************************)
(* Model of the core of the Edge AI doctor app: edge_core/DataManager.py   *)
(* (the CSV-backed wide table of vitals) and the readings that app.py and  *)
(* the simulated sensors hand to it, edge_core/AlertManager.py,            *)
(* edge_core/DigitalTwinManager.py and                                     *)
(* edge_core/ProductionVitalsPredictor.py.                                 *)
(*                                                                         *)
(* Values.  Python values are modelled as tuples so that values of         *)
(* different Python types can be compared:                                 *)
(*     None / NaN            <<>>                                          *)
(*     a string or number x  <<x>>                                         *)
(*     the text "s/d"        <<s, d>>     (a composite blood pressure)     *)
(*     datetime at tick t    <<"datetime", t>>                             *)
(*     its CSV text          <<"str", t>>                                  *)
(*                                                                         *)
(* The file.  save_data writes the whole DataFrame with to_csv and         *)
(* load_data parses the whole file with read_csv.  A number comes back as  *)
(* an equal number (72 or 72.0), an empty field as NaN, a datetime as the  *)
(* text to_csv wrote for it; patient ids and sensor kinds are texts that   *)
(* read_csv leaves texts ("patient_001", "ECG").  ftable holds the rows as *)
(* read_csv returns them.                                                  *)
(*                                                                         *)
(* Spec is one session, each call run to its end.  ConcSpec is two         *)
(* sessions of the app on the same file, their store_vital_sign calls      *)
(* interleaved at the read and the write of the file.  DamageSpec is one   *)
(* session on a file that can become unreadable between two calls.         *)
(* AlertSpec, TwinSpec and PredSpec are the calls on one AlertManager, one *)
(* DigitalTwinManager and one ProductionVitalsPredictor.  CycleSpec is the *)
(* monitoring handler of app.py, step by step.                             *)
(***************************************************************************)
EXTENDS Integers, Sequences, FiniteSets, TLC

VARIABLES
    fexists,    \* os.path.exists(self.data_path)
    ftable,     \* the rows of data/vitals.csv, as read_csv returns them
    clock,      \* datetime.now(), in ticks
    log,        \* history variable: every reading handed to store_vital_sign, in arrival order
    hist,       \* the last get_patient_vitals_history call: its arguments and its result
    wpc,        \* per session: where its store_vital_sign call stands
    wvital,     \* per session: the reading its store_vital_sign call was given
    wdf,        \* per session: the DataFrame its store_vital_sign call loaded
    alerts,     \* AlertManager.alerts: patient_id -> the alert messages stored for it
    evaluated,  \* history variable: patient_id -> its latest generate_alert call
    twins,      \* DigitalTwinManager.twins: patient_id -> what update_twin stored
    updated,    \* history variable: patient_id -> the arguments of its latest update_twin call
    fbroken,    \* the file is there but read_csv cannot parse it
    predictor,  \* the ProductionVitalsPredictor: its model and its feature_names
    trend,      \* the latest predict_trend call: its history, what reached the model, its outcome
    aligned,    \* the latest _prepare_features call: its frame and the frame returned
    cpc,        \* where the "Read Selected Sensors" handler of app.py stands
    todo,       \* the selected sensors the handler has still to read
    batch,      \* vitals of the handler: the readings of the cycle, in the order read
    stored,     \* how many store_vital_sign calls of the cycle have returned
    all_history, \* all_history of the handler
    events,     \* history variable: what the cycle has done so far, in order
    ncycles     \* how many cycles were started

\* the file and the sessions' store_vital_sign calls
storeVars == <<fexists, fbroken, ftable, clock, log, hist, wpc, wvital, wdf>>

\* AlertManager
alertVars == <<alerts, evaluated>>

\* DigitalTwinManager
twinVars == <<twins, updated>>

\* ProductionVitalsPredictor
predVars == <<predictor, trend, aligned>>

\* one run of the monitoring handler of app.py
cycleVars == <<cpc, todo, batch, stored, all_history, events, ncycles>>

vars == <<storeVars, alertVars, twinVars, predVars, cycleVars>>

----------------------------------------------------------------------------
(* Bounds *)

\* store_vital_sign calls in one behaviour
MaxStores == 3

\* the monitoring cycles of a behaviour
MaxCycles == 2

----------------------------------------------------------------------------
(* Values *)

None == <<>>

\* a non-numeric token such as "abc" in the half of a composite value
NonNumeric == "abc"

IsNull(v) == v = None

\* self.feature_columns
feature_columns ==
    <<"heart_rate", "bp_systolic", "bp_diastolic", "oxygen_saturation", "temperature">>

Features == { feature_columns[i] : i \in 1..Len(feature_columns) }

\* patient_id = "patient_001" in app.py; a second session monitors another patient
Patients == { <<"patient_001">>, <<"patient_002">> }

device_id == <<"edge_001">>

\* the f"{sys}/{dia}" text of the blood pressure monitor, and a malformed one
CompositeValues == { <<"118", "76">>, <<NonNumeric, "80">> }

\* sensor kinds that mapping knows
MappedSensors == { <<"ECG">>, <<"BP_SYS">>, <<"BP_DIA">>, <<"SpO2">>, <<"Temp">> }

\* self.sensor_type of SimulatedBloodPressureMonitor
BPSensor == <<"BP">>

Sessions == {1, 2}

----------------------------------------------------------------------------
(* Readings *)

\* the dict a sensor's read_data returns, read at tick t
Reading(p, s, v, t) ==
    [ patient_id    |-> p,
      device_id     |-> device_id,
      sensor_type   |-> s,
      value         |-> v,
      unit          |-> IF s = BPSensor THEN <<"mmHg">> ELSE <<"unit">>,
      timestamp     |-> <<"datetime", t>>,
      quality_score |-> <<95>> ]

\* a dict without the key k
Without(d, k) == [ x \in (DOMAIN d) \ {k} |-> d[x] ]

\* SimulatedBloodPressureMonitor.read_data
BPReadings(t) ==
    { Reading(<<"patient_001">>, BPSensor, v, t) : v \in CompositeValues }

\* the single-value readings the sessions store: <<patient, sensor kind, value>>,
\* the values within the ranges the simulated sensors draw from
NumInputs ==
    { << <<"patient_001">>, <<"ECG">>,    <<72>>  >>,
      << <<"patient_001">>, <<"ECG">>,    <<88>>  >>,
      << <<"patient_001">>, <<"SpO2">>,   <<98>>  >>,
      << <<"patient_001">>, <<"BP_SYS">>, <<118>> >>,
      << <<"patient_001">>, <<"BP_DIA">>, <<76>>  >>,
      << <<"patient_001">>, <<"Temp">>,   <<37>>  >>,
      << <<"patient_002">>, <<"ECG">>,    <<72>>  >>,
      << <<"patient_002">>, <<"SpO2">>,   <<98>>  >> }

NumReadings(t) ==
    { Reading(x[1], x[2], x[3], t) : x \in NumInputs }

\* readings that lack a key store_vital_sign reads
MalformedReadings(t) ==
    LET r == Reading(<<"patient_001">>, <<"ECG">>, <<72>>, t)
    IN  { Without(r, "patient_id"), Without(r, "sensor_type"), Without(r, "value") }

Readings(t) == NumReadings(t) \cup BPReadings(t) \cup MalformedReadings(t)

\* vital.get(key, default)
get(vital, key, default) ==
    IF key \in DOMAIN vital THEN vital[key] ELSE default

----------------------------------------------------------------------------
(* The persisted table *)

Columns ==
    {"patient_id", "timestamp"} \cup Features \cup {"sensor"}

\* df.to_csv writes None and NaN as an empty field, a datetime as its text
CsvCell(v) ==
    IF Len(v) = 2 /\ v[1] = "datetime" THEN <<"str", v[2]>> ELSE v

to_csv(df) ==
    [ i \in 1..Len(df) |->
        [ c \in Columns |-> IF c = "timestamp" THEN CsvCell(df[i][c]) ELSE df[i][c] ] ]

\* DataManager.save_data: the new contents of the file
save_data(df) == to_csv(df)

\* DataManager.load_data: the rows read_csv returns; the empty frame of the schema
\* columns when there is no file or when read_csv raises
load_data == IF fexists /\ ~fbroken THEN ftable ELSE <<>>

----------------------------------------------------------------------------
(* DataManager.store_vital_sign *)

\* mutant: a kind outside the table falls into a default column
mapping_DefaultColumn(sensor_type) ==
    CASE sensor_type = <<"ECG">>    -> <<"heart_rate">>
      [] sensor_type = <<"BP_SYS">> -> <<"bp_systolic">>
      [] sensor_type = <<"BP_DIA">> -> <<"bp_diastolic">>
      [] sensor_type = <<"SpO2">>   -> <<"oxygen_saturation">>
      [] sensor_type = <<"Temp">>   -> <<"temperature">>
      [] OTHER                      -> <<"bp_systolic">>

\* mapping.get(sensor_type)
mapping(sensor_type) ==
    CASE sensor_type = <<"ECG">>    -> <<"heart_rate">>
      [] sensor_type = <<"BP_SYS">> -> <<"bp_systolic">>
      [] sensor_type = <<"BP_DIA">> -> <<"bp_diastolic">>
      [] sensor_type = <<"SpO2">>   -> <<"oxygen_saturation">>
      [] sensor_type = <<"Temp">>   -> <<"temperature">>
      [] OTHER                      -> None

\* the indices of df[df["patient_id"] == pid]; a comparison with None or NaN is False
RowsOf(df, pid) ==
    { i \in 1..Len(df) : ~IsNull(pid) /\ df[i].patient_id = pid }

SetMax(S) == CHOOSE x \in S : \A y \in S : y <= x

\* mutant: an existing row keeps the value it has (first write wins)
Upsert_KeepFirst(df, vital) ==
    LET pid         == get(vital, "patient_id", None)
        timestamp   == get(vital, "timestamp", <<"datetime", clock>>)
        sensor_type == get(vital, "sensor_type", None)
        value       == get(vital, "value", None)
        feature_col == mapping(sensor_type)
    IN  IF IsNull(feature_col) THEN df
        ELSE IF RowsOf(df, pid) # {}
        THEN LET idx == SetMax(RowsOf(df, pid))
             IN  [ df EXCEPT ![idx] =
                     [ @ EXCEPT ![feature_col[1]] = IF IsNull(@) THEN value ELSE @,
                                !.timestamp = timestamp,
                                !.sensor = sensor_type ] ]
        ELSE LET blank   == [ c \in Columns |-> None ]
                 new_row == [ blank EXCEPT !.patient_id = pid,
                                           !.timestamp = timestamp,
                                           !.sensor = sensor_type,
                                           ![feature_col[1]] = value ]
             IN  Append(df, new_row)

\* the body of store_vital_sign between load_data and save_data
Upsert(df, vital) ==
    LET pid         == get(vital, "patient_id", None)
        timestamp   == get(vital, "timestamp", <<"datetime", clock>>)
        sensor_type == get(vital, "sensor_type", None)
        value       == get(vital, "value", None)
        feature_col == mapping(sensor_type)
    IN  IF IsNull(feature_col) THEN df
        ELSE IF RowsOf(df, pid) # {}
        THEN LET idx == SetMax(RowsOf(df, pid))
             IN  [ df EXCEPT ![idx] =
                     [ @ EXCEPT ![feature_col[1]] = value,
                                !.timestamp = timestamp,
                                !.sensor = sensor_type ] ]
        ELSE LET blank   == [ c \in Columns |-> None ]
                 new_row == [ blank EXCEPT !.patient_id = pid,
                                           !.timestamp = timestamp,
                                           !.sensor = sensor_type,
                                           ![feature_col[1]] = value ]
             IN  Append(df, new_row)

\* one session, nothing interleaved: the whole of store_vital_sign.
\* The result of an earlier history query is dead once the next reading is stored.
StoreVitalSign(vital) ==
    /\ Len(log) < MaxStores
    /\ \A w \in Sessions : wpc[w] = "idle"
    /\ ftable' = save_data(Upsert(load_data, vital))
    /\ fexists' = TRUE
    /\ fbroken' = FALSE
    /\ log' = Append(log, vital)
    /\ clock' = clock + 1
    /\ hist' = None
    /\ UNCHANGED <<wpc, wvital, wdf>>
    /\ UNCHANGED <<alertVars, twinVars, predVars, cycleVars>>

Store == \E vital \in Readings(clock) : StoreVitalSign(vital)

----------------------------------------------------------------------------
(* DataManager.get_patient_vitals_history *)

RECURSIVE SelectRows(_, _, _)
SelectRows(df, idxs, i) ==
    IF i > Len(df) THEN <<>>
    ELSE IF i \in idxs THEN <<df[i]>> \o SelectRows(df, idxs, i + 1)
    ELSE SelectRows(df, idxs, i + 1)

\* df.tail(limit)
tail(s, limit) ==
    IF Len(s) <= limit THEN s ELSE SubSeq(s, Len(s) - limit + 1, Len(s))

get_patient_vitals_history(patient_id, sensor_type, limit) ==
    LET df           == load_data
        patient_data == SelectRows(df, RowsOf(df, patient_id), 1)
    IN  tail(patient_data, limit)

Limits == {1, 30}

GetHistory ==
    /\ \A w \in Sessions : wpc[w] = "idle"
    /\ \E p \in Patients, s \in {None, <<"ECG">>}, n \in Limits :
         hist' = << [ patient_id |-> p, sensor_type |-> s, limit |-> n,
                      result |-> get_patient_vitals_history(p, s, n) ] >>
    /\ UNCHANGED <<fexists, fbroken, ftable, clock, log, wpc, wvital, wdf>>
    /\ UNCHANGED <<alertVars, twinVars, predVars, cycleVars>>

----------------------------------------------------------------------------
(* Two sessions storing at once: the steps of store_vital_sign are the read *)
(* of the file (load_data) and the write of the file (save_data); the rest  *)
(* of the call works on the session's own DataFrame.                        *)

\* store_vital_sign up to and including df = self.load_data()
BeginStore(w, vital) ==
    /\ Len(log) < MaxStores
    /\ wpc[w] = "idle"
    /\ wpc' = [wpc EXCEPT ![w] = "loaded"]
    /\ wvital' = [wvital EXCEPT ![w] = vital]
    /\ wdf' = [wdf EXCEPT ![w] = load_data]
    /\ log' = Append(log, vital)
    /\ clock' = clock + 1
    /\ UNCHANGED <<fexists, fbroken, ftable, hist>>
    /\ UNCHANGED <<alertVars, twinVars, predVars, cycleVars>>

\* the rest of store_vital_sign: the update of the loaded DataFrame and save_data
FinishStore(w) ==
    /\ wpc[w] = "loaded"
    /\ ftable' = save_data(Upsert(wdf[w], wvital[w]))
    /\ fexists' = TRUE
    /\ fbroken' = FALSE
    /\ wpc' = [wpc EXCEPT ![w] = "idle"]
    /\ wvital' = [wvital EXCEPT ![w] = None]
    /\ wdf' = [wdf EXCEPT ![w] = <<>>]
    /\ UNCHANGED <<clock, log, hist>>
    /\ UNCHANGED <<alertVars, twinVars, predVars, cycleVars>>

\* the file is damaged on disk (cut short, overwritten with bytes that are no CSV):
\* from now on read_csv raises, until the file is written again
DamageFile ==
    /\ ~fbroken
    /\ \A w \in Sessions : wpc[w] = "idle"
    /\ fexists' = TRUE
    /\ fbroken' = TRUE
    /\ ftable' = <<>>
    /\ UNCHANGED <<clock, log, hist, wpc, wvital, wdf>>
    /\ UNCHANGED <<alertVars, twinVars, predVars, cycleVars>>

Begin == \E w \in Sessions, vital \in Readings(clock) : BeginStore(w, vital)

Finish == \E w \in Sessions : FinishStore(w)

----------------------------------------------------------------------------
(* edge_core/AlertManager.py *)

\* {} : a dict with no key
EmptyDict == [ k \in {} |-> k ]

\* d with d[k] = v
DictSet(d, k, v) ==
    [ x \in (DOMAIN d) \cup {k} |-> IF x = k THEN v ELSE d[x] ]

\* self.thresholds: (low, high) per feature; temperature in tenths of a degree
\* (36.1, 37.5), as are the temperature values that are compared with it
thresholds ==
    [ heart_rate        |-> <<60, 100>>,
      bp_systolic       |-> <<90, 120>>,
      bp_diastolic      |-> <<60, 80>>,
      oxygen_saturation |-> <<95, 100>>,
      temperature       |-> <<361, 375>> ]

\* str.lower() on the sensor types that occur
lower(text) ==
    CASE text = "Heart_Rate" -> "heart_rate"
      [] text = "ECG"        -> "ecg"
      [] OTHER               -> text

\* str.capitalize() on the keys of thresholds
capitalize(text) ==
    CASE text = "heart_rate"        -> "Heart_rate"
      [] text = "bp_systolic"       -> "Bp_systolic"
      [] text = "bp_diastolic"      -> "Bp_diastolic"
      [] text = "oxygen_saturation" -> "Oxygen_saturation"
      [] text = "temperature"       -> "Temperature"
      [] OTHER                      -> text

\* a vital with attributes sensor_type and value (hasattr(vital, "sensor_type") is True)
ObjectVital(s, v) == [ shape |-> "object", sensor_type |-> <<s>>, value |-> <<v>> ]

\* a vital as the sensors return it: a dict, on which hasattr(vital, "sensor_type") is False
DictVital(s, v) == [ shape |-> "dict", sensor_type |-> <<s>>, value |-> <<v>> ]

\* the "vitals" lists of the twins that generate_alert is given
AlertVitalsLists ==
    { << ObjectVital("heart_rate", 60) >>,
      << ObjectVital("heart_rate", 100) >>,
      << ObjectVital("heart_rate", 101) >>,
      << ObjectVital("Heart_Rate", 111) >>,
      << ObjectVital("oxygen_saturation", 94) >>,
      << ObjectVital("ECG", 120) >>,
      << DictVital("heart_rate", 120) >>,
      << ObjectVital("heart_rate", 60), ObjectVital("heart_rate", 100) >>,
      << ObjectVital("heart_rate", 111), ObjectVital("oxygen_saturation", 94) >>,
      << ObjectVital("heart_rate", 72), ObjectVital("oxygen_saturation", 94) >> }

\* the twins: get_twin's empty default and dicts with a "vitals" list
AlertTwins == { EmptyDict } \cup { [ vitals |-> l ] : l \in AlertVitalsLists }

\* mutant: the edges of the range count as out of range
OutOfRange_EdgesOut(value, low, high) == value <= low \/ value >= high

\* vital.value < low or vital.value > high
OutOfRange(value, low, high) == value < low \/ value > high

\* the message f"{sensor.capitalize()} out of range: {vital.value}"
AlertMsg(sensor, value) ==
    [ sensor |-> capitalize(sensor), text |-> "out of range", value |-> value ]

\* the loop of generate_alert over vitals[i..]: the messages it appends
RECURSIVE CheckVitals(_, _)
CheckVitals(vitals, i) ==
    IF i > Len(vitals) THEN <<>>
    ELSE LET vital  == vitals[i]
             sensor == lower(vital.sensor_type[1])
             hit    == /\ vital.shape = "object"
                       /\ sensor \in DOMAIN thresholds
                       /\ OutOfRange(vital.value[1], thresholds[sensor][1], thresholds[sensor][2])
         IN  (IF hit THEN << AlertMsg(sensor, vital.value) >> ELSE <<>>)
                 \o CheckVitals(vitals, i + 1)

\* the local alerts of generate_alert(patient_id, twin, predictions)
generate_alert(twin) == CheckVitals(get(twin, "vitals", <<>>), 1)

\* AlertManager.generate_alert: stores and returns the alerts, if there are any
GenerateAlert(patient_id, twin) ==
    LET new == generate_alert(twin)
        ret == IF new # <<>> THEN << [ title |-> "Alert", message |-> new ] >> ELSE None
    IN  /\ alerts' = IF new # <<>> THEN DictSet(alerts, patient_id, new) ELSE alerts
        /\ evaluated' = DictSet(evaluated, patient_id,
                                [ twin |-> twin, entries |-> new, ret |-> ret ])
        /\ UNCHANGED <<storeVars, twinVars, predVars, cycleVars>>

Evaluate == \E p \in Patients, twin \in AlertTwins : GenerateAlert(p, twin)

\* AlertManager.get_alert_statistics
get_alert_statistics == [ active_alerts |-> Cardinality(DOMAIN alerts) ]

----------------------------------------------------------------------------
(* edge_core/DigitalTwinManager.py *)

\* the vitals lists and the predictions lists handed to update_twin
TwinVitals ==
    { <<>>,
      << Reading(<<"patient_001">>, <<"ECG">>, <<72>>, 1) >>,
      << Reading(<<"patient_001">>, <<"ECG">>, <<88>>, 2),
         Reading(<<"patient_001">>, BPSensor, <<"118", "76">>, 2) >> }

TwinPredictions ==
    { <<>>,
      << [ patient_id |-> <<"patient_001">>, prediction_type |-> <<"trend">>,
           predicted_value |-> <<0>>, confidence |-> <<85>>, risk |-> <<"normal">> ] >> }

\* the positional arguments after patient_id: update_twin(patient_id, vitals) and the
\* call of app.py, update_twin(patient_id, vitals, predictions)
TwinArgs ==
    { <<v>> : v \in TwinVitals } \cup { <<v, q>> : v \in TwinVitals, q \in TwinPredictions }

\* DigitalTwinManager.update_twin(self, patient_id, vitals): self.twins[patient_id] = vitals.
\* A call with another number of arguments raises TypeError before the body runs.
\* The stored value is held as the tuple of the arguments bound after patient_id.
update_twin(d, patient_id, args) ==
    IF Len(args) # 1 THEN d ELSE DictSet(d, patient_id, args)

\* DigitalTwinManager.get_twin
get_twin(patient_id) ==
    IF patient_id \in DOMAIN twins THEN twins[patient_id] ELSE EmptyDict

UpdateTwin(patient_id, args) ==
    /\ twins' = update_twin(twins, patient_id, args)
    /\ updated' = DictSet(updated, patient_id, args)
    /\ UNCHANGED <<storeVars, alertVars, predVars, cycleVars>>

Update == \E p \in Patients, args \in TwinArgs : UpdateTwin(p, args)

----------------------------------------------------------------------------
(* edge_core/ProductionVitalsPredictor.py *)
(* A DataFrame is its column names in order and its rows; a cell is a       *)
(* value as above, NaN being <<>>.  Scores are whole numbers.               *)

\* self.model and self.feature_names after __init__
Predictor(model, feature_names) == [ model |-> model, feature_names |-> feature_names ]

\* the fallback list of __init__
FallbackFeatures ==
    << "heart_rate", "bp_systolic", "bp_diastolic", "oxygen_saturation", "temperature" >>

\* no model file; a model without feature_names_in_; a model that declares its features
Predictors ==
    { Predictor(None, <<>>),
      Predictor(<<"model">>, FallbackFeatures),
      Predictor(<<"model">>, << "oxygen_saturation", "heart_rate" >>) }

Frame(columns, rows) == [ columns |-> columns, rows |-> rows ]

ColumnSet(df) == { df.columns[j] : j \in 1..Len(df.columns) }

\* the position of the first of feature_names that is a column of df; 0 if none is
FirstPresent(feature_names, df) ==
    IF \A j \in 1..Len(feature_names) : feature_names[j] \notin ColumnSet(df) THEN 0
    ELSE CHOOSE j \in 1..Len(feature_names) :
             /\ feature_names[j] \in ColumnSet(df)
             /\ \A k \in 1..(j - 1) : feature_names[k] \notin ColumnSet(df)

\* mutant: every cell is filled with zero
AlignedCell_Zero(feature_names, df, i, j) == <<0>>

\* safe_df[col] = df[col] if col in df.columns else 0, for row i and col = feature_names[j].
\* safe_df starts with no rows: a 0 assigned before the first column taken from df
\* lands on no row, and becomes NaN when that column brings the rows of df.
AlignedCell(feature_names, df, i, j) ==
    IF feature_names[j] \in ColumnSet(df) THEN df.rows[i][feature_names[j]]
    ELSE IF j < FirstPresent(feature_names, df) THEN None
    ELSE <<0>>

\* ProductionVitalsPredictor._prepare_features
_prepare_features(self, df) ==
    LET names == self.feature_names
        n     == IF FirstPresent(names, df) = 0 THEN 0 ELSE Len(df.rows)
    IN  Frame(names,
              [ i \in 1..n |->
                  [ c \in ColumnSet(Frame(names, <<>>)) |->
                      AlignedCell(names, df, i,
                                  CHOOSE j \in 1..Len(names) : names[j] = c) ] ])

\* a frame has a NaN cell
HasNaN(df) == \E i \in 1..Len(df.rows) : \E c \in ColumnSet(df) : IsNull(df.rows[i][c])

\* what self.model.predict(safe_features) can do: the model is an unpickled object
\* of which the code knows nothing; it gives score for every row, it cannot score
\* a frame with no row, and a strict model raises on a NaN cell
ModelPredict(safe_features, score, strict) ==
    IF safe_features.rows = <<>> \/ (HasNaN(safe_features) /\ strict)
    THEN [ raises |-> <<"ValueError">>, values |-> <<>> ]
    ELSE [ raises |-> None, values |-> [ i \in 1..Len(safe_features.rows) |-> score ] ]

\* ProductionVitalsPredictor.predict; passed is the frame handed to the model
predict(self, features, score, strict) ==
    IF IsNull(self.model)
    THEN [ raises |-> None, values |-> [ i \in 1..Len(features.rows) |-> <<0>> ],
           passed |-> None ]
    ELSE LET safe_features == _prepare_features(self, features)
             out           == ModelPredict(safe_features, score, strict)
         IN  [ raises |-> out.raises, values |-> out.values, passed |-> <<safe_features>> ]

\* the keys that occur in the records of a history, in a fixed order
HistoryKeys ==
    << "patient_id", "device_id", "timestamp", "sensor_type", "sensor", "value", "unit",
       "quality_score" >> \o FallbackFeatures

IsKeyOf(history, c) == \E i \in 1..Len(history) : c \in DOMAIN history[i]

\* pd.DataFrame(history): a column per key, NaN where a record lacks the key
DataFrame(history) ==
    LET columns == SelectSeq(HistoryKeys, LAMBDA c : IsKeyOf(history, c))
    IN  Frame(columns,
              [ i \in 1..Len(history) |->
                  [ c \in { columns[j] : j \in 1..Len(columns) } |-> get(history[i], c, None) ] ])

\* the sensors of a frame with a sensor column, in the order of HistorySensors
HistorySensors == << "BP", "BP_DIA", "BP_SYS", "ECG", "SpO2", "Temp" >>

HasSensor(df, name) == \E i \in 1..Len(df.rows) : df.rows[i]["sensor"] = <<name>>

\* aggfunc="last": the value of the last row of that sensor
LastValue(df, name) ==
    df.rows[SetMax({ i \in 1..Len(df.rows) : df.rows[i]["sensor"] = <<name>> })]["value"]

\* df_history.pivot_table(index="patient_id", columns="sensor", values="value",
\* aggfunc="last").reset_index(), for the history of one patient
pivot_table(df) ==
    LET sensors == SelectSeq(HistorySensors, LAMBDA name : HasSensor(df, name))
    IN  Frame(<<"patient_id">> \o sensors,
              << [ c \in {"patient_id"} \cup { sensors[j] : j \in 1..Len(sensors) } |->
                     IF c = "patient_id" THEN df.rows[1]["patient_id"]
                     ELSE LastValue(df, c) ] >>)

rename_map(name) ==
    CASE name = "ECG"    -> "heart_rate"
      [] name = "BP_SYS" -> "bp_systolic"
      [] name = "BP_DIA" -> "bp_diastolic"
      [] name = "SpO2"   -> "oxygen_saturation"
      [] name = "Temp"   -> "temperature"
      [] OTHER           -> name

\* the name a column had before the renaming
Unrenamed(df, name) == CHOOSE c \in ColumnSet(df) : rename_map(c) = name

\* df_pivot.rename(columns=rename_map)
rename(df) ==
    LET columns == [ j \in 1..Len(df.columns) |-> rename_map(df.columns[j]) ]
    IN  Frame(columns,
              [ i \in 1..Len(df.rows) |->
                  [ c \in { columns[j] : j \in 1..Len(columns) } |->
                      df.rows[i][Unrenamed(df, c)] ] ])

\* the columns that hold texts or datetimes
TextColumns == { "patient_id", "device_id", "timestamp", "sensor_type", "sensor", "unit" }

\* a column of number dtype: no text column, and no composite text in it
IsNumberColumn(df, c) ==
    c \notin TextColumns /\ \A i \in 1..Len(df.rows) : Len(df.rows[i][c]) <= 1

\* df_pivot.select_dtypes(include="number")
select_dtypes(df) ==
    LET columns == SelectSeq(df.columns, LAMBDA c : IsNumberColumn(df, c))
    IN  Frame(columns,
              [ i \in 1..Len(df.rows) |->
                  [ c \in { columns[j] : j \in 1..Len(columns) } |-> df.rows[i][c] ] ])

\* numeric_df.empty
empty(df) == df.columns = <<>> \/ df.rows = <<>>

\* the frame of one row of zeros
ZeroFrame == Frame(FallbackFeatures, << [ c \in ColumnSet(Frame(FallbackFeatures, <<>>)) |-> <<0>> ] >>)

\* mutant: the boundary counts as high
RiskLevel_FromBoundary(prediction_value) ==
    IF prediction_value[1] >= 100 THEN <<"high">> ELSE <<"normal">>

\* risk_level = "high" if prediction_value[0] > 100 else "normal"
RiskLevel(prediction_value) ==
    IF prediction_value[1] > 100 THEN <<"high">> ELSE <<"normal">>

\* the dict predict_trend returns; confidence 0.85 is held in hundredths
TrendResult(patient_id, prediction_value) ==
    [ patient_id      |-> patient_id,
      prediction_type |-> <<"trend">>,
      predicted_value |-> prediction_value,
      confidence      |-> <<85>>,
      risk            |-> RiskLevel(prediction_value) ]

\* what a call of predict_trend does
Outcome(raises, result, passed) == [ raises |-> raises, result |-> result, passed |-> passed ]

\* predict_trend(self, patient_id, history)
predict_trend(self, patient_id, history, score, strict) ==
    IF history = <<>> THEN Outcome(None, None, None)
    ELSE LET df_history == DataFrame(history)
         IN  IF "sensor" \in ColumnSet(df_history) /\ "value" \notin ColumnSet(df_history)
             THEN Outcome(<<"KeyError">>, None, None)
             ELSE LET df_pivot   == IF "sensor" \in ColumnSet(df_history)
                                    THEN pivot_table(df_history) ELSE df_history
                      selected   == select_dtypes(rename(df_pivot))
                      numeric_df == IF empty(selected) THEN ZeroFrame ELSE selected
                      prediction == predict(self, numeric_df, score, strict)
                  IN  IF ~IsNull(prediction.raises)
                      THEN Outcome(prediction.raises, None, prediction.passed)
                      ELSE Outcome(None,
                                   << TrendResult(patient_id, prediction.values[1]) >>,
                                   prediction.passed)

\* a row of the table as get_patient_vitals_history returns it
WideRow(t, sensor, cells) ==
    [ c \in Columns |->
        CASE c = "patient_id" -> <<"patient_001">>
          [] c = "timestamp"  -> <<"str", t>>
          [] c = "sensor"     -> <<sensor>>
          [] OTHER            -> get(cells, c, None) ]

\* a record of a history of readings, one reading per record
LongRow(sensor, value) ==
    [ patient_id |-> <<"patient_001">>, sensor |-> <<sensor>>, value |-> value ]

\* the histories of patient_001 handed to predict_trend: none; rows of the table;
\* records of one reading each; the readings as the sensors return them
Histories ==
    { <<>>,
      << WideRow(1, "ECG", [ heart_rate |-> <<72>> ]) >>,
      << WideRow(2, "SpO2", [ heart_rate |-> <<72>>, oxygen_saturation |-> <<98>> ]) >>,
      << LongRow("ECG", <<72>>) >>,
      << LongRow("SpO2", <<97>>), LongRow("ECG", <<72>>), LongRow("ECG", <<88>>) >>,
      << LongRow("Temp", <<37>>), LongRow("ECG", <<72>>), LongRow("SpO2", <<97>>), LongRow("BP_SYS", <<118>>),
         LongRow("BP_DIA", <<76>>) >>,
      << LongRow("BP", <<"118", "76">>) >>,
      << Reading(<<"patient_001">>, <<"ECG">>, <<72>>, 1) >>,
      << Reading(<<"patient_001">>, BPSensor, <<"118", "76">>, 1) >> }

\* the scores of the model
Scores == { <<0>>, <<100>>, <<101>>, <<150>> }

PredictTrend ==
    /\ \E history \in Histories, score \in Scores, strict \in BOOLEAN :
         LET out == predict_trend(predictor, <<"patient_001">>, history, score, strict)
         IN  trend' = << [ history |-> history, passed |-> out.passed,
                           raises |-> out.raises, result |-> out.result ] >>
    /\ UNCHANGED <<predictor, aligned>>
    /\ UNCHANGED <<storeVars, alertVars, twinVars, cycleVars>>

\* the frames handed to _prepare_features: complete ones, ones that lack features,
\* one with a column that is no feature, and a frame that it returned
FeatureFrames ==
    { Frame(FallbackFeatures,
            << [ heart_rate |-> <<72>>, bp_systolic |-> <<118>>, bp_diastolic |-> <<76>>,
                 oxygen_saturation |-> <<97>>, temperature |-> <<37>> ] >>),
      Frame(<< "temperature", "oxygen_saturation", "bp_diastolic", "bp_systolic", "heart_rate",
               "quality_score" >>,
            << [ heart_rate |-> <<88>>, bp_systolic |-> <<0>>, bp_diastolic |-> <<80>>,
                 oxygen_saturation |-> <<98>>, temperature |-> <<36>>, quality_score |-> <<95>> ],
               [ heart_rate |-> <<72>>, bp_systolic |-> <<120>>, bp_diastolic |-> <<80>>,
                 oxygen_saturation |-> <<98>>, temperature |-> <<37>>, quality_score |-> <<95>> ] >>),
      Frame(<< "heart_rate" >>, << [ heart_rate |-> <<72>> ] >>),
      Frame(<< "oxygen_saturation", "temperature" >>,
            << [ oxygen_saturation |-> <<97>>, temperature |-> <<37>> ] >>),
      Frame(<< "quality_score" >>, << [ quality_score |-> <<95>> ] >>),
      Frame(FallbackFeatures, <<>>) }

PrepareFeatures ==
    /\ \E df \in FeatureFrames \cup { aligned[i].out : i \in 1..Len(aligned) } :
         aligned' = << [ df |-> df, out |-> _prepare_features(predictor, df) ] >>
    /\ UNCHANGED <<predictor, trend>>
    /\ UNCHANGED <<storeVars, alertVars, twinVars, cycleVars>>

----------------------------------------------------------------------------
(* app.py: the "Read Selected Sensors" handler, and the body of the live    *)
(* monitoring loops, which run the same steps: read the selected sensors,   *)
(* store the readings, query the history, predict, update twin and alerts.  *)
(* An exception that a call raises is caught nowhere: it ends the run.      *)

SensorOrder == << "ECG", "SpO2", "BP" >>

\* use_ecg, use_spo2, use_bp: the sensors ticked in the sidebar, in the order read
Selections ==
    { SelectSeq(SensorOrder, LAMBDA sensor : sensor \in S) : S \in SUBSET {"ECG", "SpO2", "BP"} }

\* what loop.run_until_complete(sensor.read_data()) returns at tick t: a dict, or,
\* for the ECG sensor, a reading with attributes in place of keys
SensorReads(sensor, t) ==
    CASE sensor = "ECG"  -> { Reading(<<"patient_001">>, <<"ECG">>, <<72>>, t),
                              ObjectVital("ECG", 72) }
      [] sensor = "SpO2" -> { Reading(<<"patient_001">>, <<"SpO2">>, <<98>>, t) }
      [] OTHER           -> { Reading(<<"patient_001">>, BPSensor, <<"118", "76">>, t) }

\* vital.get exists: the reading is a dict.  store_vital_sign evaluates
\* vital.get("patient_id") as the default of getattr before anything else, so a
\* reading without get raises AttributeError there.
HasGet(vital) == get(vital, "shape", "dict") = "dict"

\* the button is pressed (or the live loop starts its next round)
BeginCycle(selection) ==
    /\ cpc \in {"idle", "aborted"}
    /\ ncycles < MaxCycles
    /\ \A w \in Sessions : wpc[w] = "idle"
    /\ ncycles' = ncycles + 1
    /\ todo' = selection
    /\ batch' = <<>>
    /\ stored' = 0
    /\ all_history' = <<>>
    /\ events' = <<>>
    /\ cpc' = "read"
    /\ UNCHANGED <<storeVars, alertVars, twinVars, predVars>>

\* mutant: the store loop starts after the first read
AfterRead_StoreEarly(rest) == "store"

\* the reads follow one another; the store loop comes after the last of them
AfterRead(rest) == IF rest # <<>> THEN "read" ELSE "store"

\* if use_...: vitals.append(loop.run_until_complete(sensor.read_data()))
ReadSensor ==
    /\ cpc = "read"
    /\ IF todo = <<>>
       THEN /\ cpc' = "store"
            /\ UNCHANGED <<todo, batch, events>>
       ELSE \E reading \in SensorReads(Head(todo), clock) :
                /\ batch' = Append(batch, reading)
                /\ events' = Append(events, <<"read", Head(todo)>>)
                /\ todo' = Tail(todo)
                /\ cpc' = AfterRead(Tail(todo))
    /\ UNCHANGED <<stored, all_history, ncycles>>
    /\ UNCHANGED <<storeVars, alertVars, twinVars, predVars>>

\* for v in vitals: data_manager.store_vital_sign(v)
StoreNext ==
    /\ cpc = "store"
    /\ IF stored = Len(batch)
       THEN /\ cpc' = "history"
            /\ UNCHANGED <<fexists, fbroken, ftable, clock, log, stored, events>>
       ELSE LET v == batch[stored + 1]
            IN  IF HasGet(v)
                THEN /\ ftable' = save_data(Upsert(load_data, v))
                     /\ fexists' = TRUE
                     /\ fbroken' = FALSE
                     /\ log' = Append(log, v)
                     /\ clock' = clock + 1
                     /\ stored' = stored + 1
                     /\ events' = Append(events, <<"store", ToString(stored + 1)>>)
                     /\ UNCHANGED cpc
                ELSE /\ cpc' = "aborted"
                     /\ UNCHANGED <<fexists, fbroken, ftable, clock, log, stored, events>>
    /\ UNCHANGED <<hist, wpc, wvital, wdf>>
    /\ UNCHANGED <<todo, batch, all_history, ncycles>>
    /\ UNCHANGED <<alertVars, twinVars, predVars>>

\* all_history = data_manager.get_patient_vitals_history(patient_id, limit=30)
QueryHistory ==
    /\ cpc = "history"
    /\ all_history' = get_patient_vitals_history(<<"patient_001">>, None, 30)
    /\ events' = Append(events, <<"history", ToString(stored)>>)
    /\ cpc' = "predict"
    /\ UNCHANGED <<todo, batch, stored, ncycles>>
    /\ UNCHANGED <<storeVars, alertVars, twinVars, predVars>>

\* prediction = predictor.predict_trend(patient_id, all_history)
Predict ==
    /\ cpc = "predict"
    /\ \E score \in Scores, strict \in BOOLEAN :
         LET out == predict_trend(predictor, <<"patient_001">>, all_history, score, strict)
         IN  /\ trend' = << [ history |-> all_history, passed |-> out.passed,
                              raises |-> out.raises, result |-> out.result ] >>
             /\ cpc' = IF IsNull(out.raises) THEN "twin" ELSE "aborted"
    /\ events' = Append(events, <<"predict", ToString(stored)>>)
    /\ UNCHANGED <<predictor, aligned>>
    /\ UNCHANGED <<todo, batch, stored, all_history, ncycles>>
    /\ UNCHANGED <<storeVars, alertVars, twinVars>>

\* twin_manager.update_twin(patient_id, vitals, predictions): the call passes two
\* arguments after patient_id and raises TypeError
UpdateTwinOfCycle ==
    /\ cpc = "twin"
    /\ LET predictions == IF IsNull(trend[1].result) THEN <<>> ELSE trend[1].result
           args        == << batch, predictions >>
       IN  /\ twins' = update_twin(twins, <<"patient_001">>, args)
           /\ updated' = DictSet(updated, <<"patient_001">>, args)
    /\ cpc' = "aborted"
    /\ UNCHANGED <<todo, batch, stored, all_history, events, ncycles>>
    /\ UNCHANGED <<storeVars, alertVars, predVars>>

Press == \E selection \in Selections : BeginCycle(selection)

----------------------------------------------------------------------------

\* the managers but the predictor, as constructed
InitManagers ==
    /\ fexists = FALSE
    /\ fbroken = FALSE
    /\ ftable = <<>>
    /\ clock = 1
    /\ log = <<>>
    /\ hist = None
    /\ wpc = [ w \in Sessions |-> "idle" ]
    /\ wvital = [ w \in Sessions |-> None ]
    /\ wdf = [ w \in Sessions |-> <<>> ]
    /\ alerts = EmptyDict
    /\ evaluated = EmptyDict
    /\ twins = EmptyDict
    /\ updated = EmptyDict
    /\ trend = None
    /\ aligned = None
    /\ cpc = "idle"
    /\ todo = <<>>
    /\ batch = <<>>
    /\ stored = 0
    /\ all_history = <<>>
    /\ events = <<>>
    /\ ncycles = 0

\* the model file is not there
Init == InitManagers /\ predictor = Predictor(None, <<>>)

\* the model file is not there, or it holds a model, with or without feature_names_in_
PredInit == InitManagers /\ predictor \in Predictors

Next == Store \/ GetHistory

\* one session: every call runs to its end before the next one starts
Spec == Init /\ [][Next]_vars

ConcNext == Begin \/ Finish

\* two sessions whose calls interleave at the reads and writes of the file
ConcSpec == Init /\ [][ConcNext]_vars

\* one session, and a file that can be damaged between its calls
DamageNext == Store \/ GetHistory \/ DamageFile

DamageSpec == Init /\ [][DamageNext]_vars

\* calls of predict_trend and of _prepare_features on one predictor
PredNext == PredictTrend \/ PrepareFeatures

PredSpec == PredInit /\ [][PredNext]_vars

\* the monitoring cycles of one session, step by step
CycleNext == Press \/ ReadSensor \/ StoreNext \/ QueryHistory \/ Predict \/ UpdateTwinOfCycle

CycleSpec == Init /\ [][CycleNext]_vars

\* alert evaluations, one call after the other
AlertSpec == Init /\ [][Evaluate]_vars

\* twin updates, one call after the other
TwinSpec == Init /\ [][Update]_vars

----------------------------------------------------------------------------
(* Vocabulary of the claims *)

\* the specified table sensor kind -> canonical feature; "" for a kind outside it
CanonicalFeature(s) ==
    CASE s = <<"ECG">>    -> "heart_rate"
      [] s = <<"SpO2">>   -> "oxygen_saturation"
      [] s = <<"BP_SYS">> -> "bp_systolic"
      [] s = <<"BP_DIA">> -> "bp_diastolic"
      [] s = <<"Temp">>   -> "temperature"
      [] OTHER            -> ""

PidOf(r) == get(r, "patient_id", None)
KindOf(r) == get(r, "sensor_type", None)
ValueOf(r) == get(r, "value", None)

Last(s) == s[Len(s)]

\* column f of the snapshot row of patient p in table tbl; null when p has no row
Snapshot(tbl, p, f) ==
    IF RowsOf(tbl, p) = {} THEN None ELSE tbl[SetMax(RowsOf(tbl, p))][f]

\* the positions in the arrival order of the readings of patient p that map to feature f
WritesTo(p, f) ==
    { i \in 1..Len(log) : PidOf(log[i]) = p /\ CanonicalFeature(KindOf(log[i])) = f }

\* a reading that has the three required fields
HasRequired(r) ==
    ~IsNull(PidOf(r)) /\ ~IsNull(KindOf(r)) /\ ~IsNull(ValueOf(r))

\* a composite blood pressure reading
IsComposite(r) == HasRequired(r) /\ Len(ValueOf(r)) = 2

\* int(text) of one half of a composite value; None where int() raises
IntOf(text) ==
    CASE text = "118" -> <<118>>
      [] text = "76"  -> <<76>>
      [] text = "80"  -> <<80>>
      [] OTHER        -> None

Splits(r) == ~IsNull(IntOf(ValueOf(r)[1])) /\ ~IsNull(IntOf(ValueOf(r)[2]))

\* a step that is a store operation
IsStore == log' # log

\* row records reading r: its patient, its sensor kind, and its raw value in some column
Records(row, r) ==
    /\ row.patient_id = PidOf(r)
    /\ row.sensor = KindOf(r)
    /\ \E c \in Features : row[c] = ValueOf(r)

\* reading r is recorded somewhere in table tbl
Logged(tbl, r) == \E i \in 1..Len(tbl) : Records(tbl[i], r)

IsPrefix(s, t) == Len(s) <= Len(t) /\ \A i \in 1..Len(s) : s[i] = t[i]

AllIdle == \A w \in Sessions : wpc[w] = "idle"

\* every reading stored so far has the required fields
WellFormedLog == \A i \in 1..Len(log) : HasRequired(log[i])

\* ... and a sensor kind of the mapping table
MappedLog ==
    \A i \in 1..Len(log) : HasRequired(log[i]) /\ CanonicalFeature(KindOf(log[i])) # ""

----------------------------------------------------------------------------
(* Claims *)

\* C1: when store operations of two sessions for the same patient and different
\* features overlap, the final snapshot row holds both written values, whatever
\* the interleaving of their loads and saves (no lost update).
C1_NoLostUpdate ==
    (AllIdle /\ MappedLog) =>
        \A i \in 1..Len(log) :
            LET r == log[i]
                f == CanonicalFeature(KindOf(r))
            IN  (HasRequired(r) /\ f # "" /\ WritesTo(PidOf(r), f) = {i})
                    => Snapshot(ftable, PidOf(r), f) = ValueOf(r)

\* C2: last-write-wins. After any sequential series of stores, column f of the
\* snapshot of patient p is the value of the most recent stored reading of p whose
\* sensor kind maps to f, null if there is none. (A store of a reading mapped to f
\* adds nothing to WritesTo(p, g) for g # f, so it changes no other column of p.)
C2_LastWriteWins ==
    \A p \in Patients, f \in Features :
        Snapshot(ftable, p, f) =
            IF WritesTo(p, f) = {} THEN None ELSE ValueOf(log[SetMax(WritesTo(p, f))])

\* C2 witness: a patient whose feature was written twice with different values
\* holds the later one, next to another feature written in between.
C2_Witness ==
    \E p \in Patients, f \in Features, g \in Features :
        /\ f # g
        /\ Cardinality(WritesTo(p, f)) >= 2
        /\ \E i \in WritesTo(p, f) : ValueOf(log[i]) # ValueOf(log[SetMax(WritesTo(p, f))])
        /\ Snapshot(ftable, p, f) = ValueOf(log[SetMax(WritesTo(p, f))])
        /\ ~IsNull(Snapshot(ftable, p, g))

\* C3: storing a composite blood pressure reading "<int>/<int>" sets bp_systolic to
\* the first integer and bp_diastolic to the second, both in the same step.
C3_CompositeSplit ==
    (log # <<>> /\ IsComposite(Last(log)) /\ Splits(Last(log))) =>
        /\ Snapshot(ftable, PidOf(Last(log)), "bp_systolic") = IntOf(ValueOf(Last(log))[1])
        /\ Snapshot(ftable, PidOf(Last(log)), "bp_diastolic") = IntOf(ValueOf(Last(log))[2])

\* C4: storing a composite reading that does not split into two numbers leaves
\* bp_systolic and bp_diastolic of the patient as they were, and the malformed raw
\* value is recorded in the persisted readings.
C4_MalformedComposite ==
    [][ (IsStore /\ IsComposite(Last(log')) /\ ~Splits(Last(log'))) =>
            /\ Snapshot(ftable', PidOf(Last(log')), "bp_systolic")
                 = Snapshot(ftable, PidOf(Last(log')), "bp_systolic")
            /\ Snapshot(ftable', PidOf(Last(log')), "bp_diastolic")
                 = Snapshot(ftable, PidOf(Last(log')), "bp_diastolic")
            /\ Logged(ftable', Last(log')) ]_vars

\* C5: a store of a reading that lacks patient_id, sensor_kind or value is rejected
\* and leaves the persisted table as it was: no row is added or modified.
C5_RejectsMissingFields ==
    [][ (IsStore /\ ~HasRequired(Last(log'))) => ftable' = ftable ]_vars

\* C6: the persisted readings are append-only and complete: a store leaves the
\* earlier entries as a prefix of the new contents, and every stored reading is
\* there, in arrival order.
C6_AppendOnlyLog ==
    [][ (IsStore /\ WellFormedLog') =>
            /\ IsPrefix(ftable, ftable')
            /\ Len(ftable') = Len(log')
            /\ \A i \in 1..Len(log') : Records(ftable'[i], log'[i]) ]_vars

\* the readings of patient p, of sensor kind s when s is given, in arrival order
StoredOf(p, s) ==
    SelectRows(log, { i \in 1..Len(log) :
                        PidOf(log[i]) = p /\ (IsNull(s) \/ KindOf(log[i]) = s) }, 1)

\* C7: get_history(p, s, limit = N) returns the last min(N, k) readings stored for p
\* that match the filter, oldest first; every one has kind s when s is given.
C7_HistoryWindow ==
    (hist # None /\ MappedLog) =>
        LET q        == hist[1]
            expected == tail(StoredOf(q.patient_id, q.sensor_type), q.limit)
        IN  /\ Len(q.result) = Len(expected)
            /\ \A j \in 1..Len(expected) :
                 /\ Records(q.result[j], expected[j])
                 /\ IsNull(q.sensor_type) \/ q.result[j].sensor = q.sensor_type

\* C8: round trip. Storing a valid reading r and then asking for the history of
\* r's patient and sensor kind with limit 1 returns one reading equal to r in
\* patient_id, device_id, sensor kind, value, unit, quality_score and timestamp.
C8_RoundTrip ==
    (/\ hist # None
     /\ log # <<>>
     /\ MappedLog
     /\ hist[1].patient_id = PidOf(Last(log))
     /\ hist[1].sensor_type = KindOf(Last(log))
     /\ hist[1].limit = 1) =>
        LET r   == Last(log)
            res == hist[1].result
        IN  /\ Len(res) = 1
            /\ get(res[1], "patient_id", None) = r.patient_id
            /\ get(res[1], "device_id", None) = r.device_id
            /\ get(res[1], "sensor", None) = r.sensor_type
            /\ \/ get(res[1], "value", None) = r.value
               \/ get(res[1], CanonicalFeature(r.sensor_type), None) = r.value
            /\ get(res[1], "unit", None) = r.unit
            /\ get(res[1], "quality_score", None) = r.quality_score
            /\ get(res[1], "timestamp", None) = r.timestamp

\* C9: the table holds exactly one row for each patient for whom a reading has been
\* stored, none for the others, and a store never removes a row.
C9_Rows ==
    WellFormedLog => \A p \in Patients :
        Cardinality(RowsOf(ftable, p)) =
            IF \E i \in 1..Len(log) : PidOf(log[i]) = p THEN 1 ELSE 0

C9_OneRowPerPatient ==
    [][ C9_Rows' /\ \A p \in Patients : RowsOf(ftable, p) \subseteq RowsOf(ftable', p) ]_vars

\* the patient and the feature cells of every row
FeatureCells(tbl) ==
    [ i \in 1..Len(tbl) |-> [ c \in Features \cup {"patient_id"} |-> tbl[i][c] ] ]

\* C10: storing a reading whose sensor kind is not in the mapping table leaves every
\* feature column of every patient's row as it was.
C10_UnknownKindNoColumn ==
    [][ (IsStore /\ CanonicalFeature(KindOf(Last(log'))) = "")
            => FeatureCells(ftable') = FeatureCells(ftable) ]_vars

\* C10 witness: a reading of the blood pressure monitor's kind "BP" was stored
\* after the patient's row had a value.
C10_Witness ==
    /\ Len(log) >= 2
    /\ KindOf(Last(log)) = BPSensor
    /\ hist = None
    /\ \E f \in Features : ~IsNull(Snapshot(ftable, PidOf(Last(log)), f))

----------------------------------------------------------------------------
(* Claims about the AlertManager, under AlertSpec *)

\* the patients whose latest evaluation produced at least one alert entry
AlertingNow == { p \in DOMAIN evaluated : evaluated[p].entries # <<>> }

\* the alert set held for a patient: none when nothing is stored
StoredAlerts(p) == IF p \in DOMAIN alerts THEN alerts[p] ELSE <<>>

\* C11: active_alerts equals the number of patients whose most recent evaluation
\* produced at least one alert entry, and the alert set stored for a patient is
\* the result of its latest evaluation (a later evaluation without alerts
\* clears what an earlier one stored).
C11_ActiveAlertsAreLatest ==
    /\ get_alert_statistics.active_alerts = Cardinality(AlertingNow)
    /\ \A p \in DOMAIN evaluated : StoredAlerts(p) = evaluated[p].entries

\* the safe and the borderline band of heart_rate
HeartRateSafe == <<60, 100>>
HeartRateBorderline == <<50, 110>>

Inside(v, band) == band[1] <= v /\ v <= band[2]

\* the vitals of a twin that are evaluated: objects whose kind names a feature
Observed(twin) ==
    LET vitals == get(twin, "vitals", <<>>)
    IN  { vitals[i] : i \in { j \in 1..Len(vitals) : vitals[j].shape = "object" } }

\* the severity the two-band rule gives a heart_rate value outside the safe band
Severity(v) == IF Inside(v, HeartRateBorderline) THEN <<"warning">> ELSE <<"critical">>

\* C12: a heart_rate outside the safe band [60,100] yields an alert entry whose
\* severity is warning inside the borderline band [50,110] and critical
\* outside it (101 gives warning, 111 gives critical).
C12_TwoBandSeverity ==
    \A p \in DOMAIN evaluated :
        \A vital \in Observed(evaluated[p].twin) :
            ( /\ lower(vital.sensor_type[1]) = "heart_rate"
              /\ ~Inside(vital.value[1], HeartRateSafe) )
            => \E i \in 1..Len(evaluated[p].entries) :
                   LET m == evaluated[p].entries[i]
                   IN  /\ m.value = vital.value
                       /\ get(m, "severity", None) = Severity(vital.value[1])

\* the safe band of each feature that has one
SafeBand ==
    [ heart_rate        |-> HeartRateSafe,
      bp_systolic       |-> <<90, 120>>,
      bp_diastolic      |-> <<60, 80>>,
      oxygen_saturation |-> <<95, 100>>,
      temperature       |-> <<361, 375>> ]

\* an alert entry reports a value outside the safe band of its feature
OutsideSafe(m) ==
    \E f \in DOMAIN SafeBand : m.sensor = capitalize(f) /\ ~Inside(m.value[1], SafeBand[f])

\* every observed value of a twin lies within the safe band of its feature
AllSafe(twin) ==
    \A vital \in Observed(twin) :
        lower(vital.sensor_type[1]) \in DOMAIN SafeBand
            => Inside(vital.value[1], SafeBand[lower(vital.sensor_type[1])])

\* C13: no alert entry is produced for a value within its safe band, both edges
\* included (heart_rate 60 and 100 raise nothing), and an evaluation whose
\* values all lie within their safe bands returns no alert.
C13_SafeBandInclusive ==
    \A p \in DOMAIN evaluated :
        LET e == evaluated[p]
        IN  /\ \A i \in 1..Len(e.entries) : OutsideSafe(e.entries[i])
            /\ AllSafe(e.twin) => e.entries = <<>> /\ e.ret = None

\* an evaluation of heart_rate 60 and heart_rate 100 together returned no alert
C13_Witness ==
    \E p \in DOMAIN evaluated :
        /\ evaluated[p].twin =
               [ vitals |-> << ObjectVital("heart_rate", 60), ObjectVital("heart_rate", 100) >> ]
        /\ evaluated[p].ret = None

----------------------------------------------------------------------------
(* Claim about the DigitalTwinManager, under TwinSpec *)

\* C19: get_twin(p) returns exactly the payload of the most recent update for p,
\* the empty default for a patient never updated; an update for one patient
\* leaves what is held for the others as it was.
C19_WholesaleReplace ==
    \A p \in Patients :
        get_twin(p) = IF p \in DOMAIN updated THEN updated[p] ELSE EmptyDict

----------------------------------------------------------------------------
(* Claim about the unreadable file, under DamageSpec *)

\* every row of the table has exactly the schema columns
SchemaValid(tbl) == \A i \in 1..Len(tbl) : DOMAIN tbl[i] = Columns

\* C20: when the file exists but cannot be read, loading raises nothing and
\* yields the empty table of the schema columns; a store performed then leaves a
\* readable, schema-valid file that contains the newly stored reading.
C20_StoreAfterCorruption ==
    [][ (fexists /\ fbroken)
            => /\ load_data = <<>>
               /\ (IsStore /\ HasRequired(Last(log')))
                      => /\ fexists' /\ ~fbroken'
                         /\ SchemaValid(ftable')
                         /\ Logged(ftable', Last(log')) ]_vars

----------------------------------------------------------------------------
(* Claims about the predictor, under PredSpec *)

\* the model is loaded
HasModel == ~IsNull(predictor.model)

\* C14: with no model loaded, predict_trend returns for every non-empty history
\* a prediction of value 0, risk "normal" and confidence 0.85, and the result
\* tells the caller that the model is unavailable: it is not the result that a
\* loaded model which scored 0 gives.
C14_DegradedMode ==
    \A i \in 1..Len(trend) :
        (~HasModel /\ trend[i].history # <<>>)
            => /\ IsNull(trend[i].raises)
               /\ ~IsNull(trend[i].result)
               /\ trend[i].result[1].predicted_value = <<0>>
               /\ trend[i].result[1].risk = <<"normal">>
               /\ trend[i].result[1].confidence = <<85>>
               /\ trend[i].result[1] # TrendResult(<<"patient_001">>, <<0>>)

\* C15: risk is "high" if and only if the predicted value is above 100, else
\* "normal"; 100 itself is "normal" and the next value above it is "high".
C15_RiskThreshold ==
    \A i \in 1..Len(trend) :
        ~IsNull(trend[i].result)
            => LET r == trend[i].result[1]
               IN  /\ r.risk \in { <<"high">>, <<"normal">> }
                   /\ r.risk = <<"high">> <=> r.predicted_value[1] > 100

\* a loaded model scored exactly 100 and the risk is "normal"
C15_Witness ==
    \E i \in 1..Len(trend) :
        /\ HasModel
        /\ ~IsNull(trend[i].result)
        /\ trend[i].result[1].predicted_value = <<100>>
        /\ trend[i].result[1].risk = <<"normal">>

\* the value a record of a history carries for feature f; null if it carries none
ValueFor(r, f) ==
    IF f \in DOMAIN r THEN r[f]
    ELSE IF "value" \in DOMAIN r /\ "sensor" \in DOMAIN r /\ CanonicalFeature(r["sensor"]) = f
         THEN r["value"]
    ELSE IF "value" \in DOMAIN r /\ "sensor_type" \in DOMAIN r
            /\ CanonicalFeature(r["sensor_type"]) = f
         THEN r["value"]
    ELSE None

\* the records of a history that carry a value for feature f
Carrying(history, f) == { i \in 1..Len(history) : ~IsNull(ValueFor(history[i], f)) }

\* a history as get_patient_vitals_history returns it: rows of the table
IsTableHistory(history) == \A i \in 1..Len(history) : DOMAIN history[i] = Columns

\* C16: for a non-empty history predict_trend passes one row to the model, and
\* that row holds for each feature the most recent value of the feature found
\* anywhere in the history, also when only an older record carries it.
C16_MergedRow ==
    \A i \in 1..Len(trend) :
        (HasModel /\ trend[i].history # <<>> /\ IsTableHistory(trend[i].history))
            => /\ ~IsNull(trend[i].passed)
               /\ Len(trend[i].passed[1].rows) = 1
               /\ \A f \in ColumnSet(trend[i].passed[1]) :
                      Carrying(trend[i].history, f) # {}
                          => trend[i].passed[1].rows[1][f] =
                                 ValueFor(trend[i].history[SetMax(Carrying(trend[i].history, f))], f)

\* the physiologically neutral defaults; temperature 36.5 in tenths of a degree
NeutralDefault ==
    [ heart_rate        |-> <<70>>,
      bp_systolic       |-> <<120>>,
      bp_diastolic      |-> <<80>>,
      oxygen_saturation |-> <<98>>,
      temperature       |-> <<365>> ]

\* C17: alignment fills every required feature that the input lacks with its
\* neutral default, never with zero, and the aligned rows have exactly the
\* required features in the declared order.
C17_NeutralDefaults ==
    \A k \in 1..Len(aligned) :
        LET df == aligned[k].df
            out == aligned[k].out
        IN  HasModel
                => /\ out.columns = predictor.feature_names
                   /\ Len(out.rows) = Len(df.rows)
                   /\ \A i \in 1..Len(out.rows) :
                          /\ DOMAIN out.rows[i] = ColumnSet(out)
                          /\ \A f \in ColumnSet(out) \ ColumnSet(df) :
                                 out.rows[i][f] = NeutralDefault[f]

\* the frame has a column for every required feature
Complete(df) ==
    \A j \in 1..Len(predictor.feature_names) : predictor.feature_names[j] \in ColumnSet(df)

\* C18: aligning a frame that has every required feature returns the same value
\* for each required feature, and aligning the result again returns the same
\* frame.
C18_AlignIdempotent ==
    \A k \in 1..Len(aligned) :
        LET df == aligned[k].df
            out == aligned[k].out
        IN  Complete(df)
                => /\ \A i \in 1..Len(df.rows) :
                          \A j \in 1..Len(predictor.feature_names) :
                              /\ i <= Len(out.rows)
                              /\ out.rows[i][predictor.feature_names[j]]
                                     = df.rows[i][predictor.feature_names[j]]
                   /\ _prepare_features(predictor, out) = out

\* a frame that alignment returned, with rows in it, was aligned again
C18_Witness ==
    \E k \in 1..Len(aligned) :
        /\ HasModel
        /\ aligned[k].df \notin FeatureFrames
        /\ aligned[k].df = aligned[k].out
        /\ Len(aligned[k].out.rows) = 2
        /\ aligned[k].out.rows[1]["heart_rate"] = <<88>>

----------------------------------------------------------------------------
(* Claims about the monitoring cycle, under CycleSpec *)

\* what the cycle has done so far
Done == { events[i] : i \in 1..Len(events) }

\* the run of the handler has ended
CycleEnded == cpc \in {"idle", "aborted"} /\ ncycles > 0

\* the readings of the batch on which the store operation fails
Malformed == { k \in 1..Len(batch) : ~HasGet(batch[k]) }

\* C21: a malformed reading of a cycle's batch, one on which the store
\* operation fails, does not keep the others out: by the end of the cycle every
\* well-formed reading of the batch, also one after the malformed reading, has
\* been stored, and the cycle has gone on to the prediction.
C21_MalformedDoesNotBlock ==
    (CycleEnded /\ Malformed # {} /\ Malformed # 1..Len(batch))
        => /\ \A k \in (1..Len(batch)) \ Malformed : <<"store", ToString(k)>> \in Done
           /\ \E e \in Done : e[1] = "predict"

\* the store calls that had returned when the cycle did events[i]
StoresBefore(i) == { j \in 1..(i - 1) : events[j][1] = "store" }

\* C22: in every cycle all selected sensors have been read before the first
\* reading of the cycle is persisted (its store_vital_sign call made), and the
\* store calls of all readings of the cycle have returned before the history
\* is queried and the prediction is computed from it.
C22_ReadStoreQueryOrder ==
    \A i \in 1..Len(events) :
        /\ events[i][1] = "store"
               => /\ todo = <<>>
                  /\ \A j \in (i + 1)..Len(events) : events[j][1] # "read"
        /\ events[i][1] \in {"history", "predict"}
               => /\ todo = <<>>
                  /\ Cardinality(StoresBefore(i)) = Len(batch)
                  /\ \A j \in (i + 1)..Len(events) : events[j][1] \notin {"read", "store"}
        /\ events[i][1] = "predict"
               => \E j \in 1..(i - 1) : events[j][1] = "history"

\* a cycle read three sensors, stored the three readings, queried the history
\* and went on to the prediction
C22_Witness ==
    /\ Len(batch) = 3
    /\ events = << <<"read", "ECG">>, <<"read", "SpO2">>, <<"read", "BP">>,
                   <<"store", "1">>, <<"store", "2">>, <<"store", "3">>,
                   <<"history", "3">>, <<"predict", "3">> >>

----------------------------------------------------------------------------
(* Claim about stores for different patients, under ConcSpec *)

\* the positions in the arrival order of the readings of patient p
StoresOf(p) == { i \in 1..Len(log) : PidOf(log[i]) = p }

\* C23: a store for patient A leaves the row of another patient B alone; when
\* one store for A and one for B overlap, each loading the whole table and
\* saving the whole table, the final table holds both written values whatever
\* the interleaving.
C23_CrossPatientIsolation ==
    (AllIdle /\ MappedLog) =>
        \A i \in 1..Len(log), j \in 1..Len(log) :
            ( /\ PidOf(log[i]) # PidOf(log[j])
              /\ StoresOf(PidOf(log[i])) = {i}
              /\ StoresOf(PidOf(log[j])) = {j} )
            => /\ Snapshot(ftable, PidOf(log[i]), CanonicalFeature(KindOf(log[i])))
                      = ValueOf(log[i])
               /\ Snapshot(ftable, PidOf(log[j]), CanonicalFeature(KindOf(log[j])))
                      = ValueOf(log[j])

====
